---- MODULE Spec2Model ----
(***************************************************************************)
(* Order-processing core of the bookstore server: the Queue and Stack      *)
(* containers, the sorting library, and the OrderProcessor service that    *)
(* threads an order through validation, availability check, sorting and    *)
(* pricing while logging every transition on a history stack.              *)
(*                                                                         *)
(* JavaScript values that may be absent (undefined / null) are modelled as *)
(* sequences of length 0 or 1: <<>> is the absent value, <<v>> is v.       *)
(* JavaScript arrays are 0-based; the sequences here are 1-based, so the   *)
(* array slot i is the sequence element i + 1.                             *)
(***************************************************************************)
EXTENDS Integers, Sequences, FiniteSets, TLC

VARIABLES
    pendingOrders,      \* OrderProcessor.pendingOrders     : Queue of order references
    processingHistory,  \* OrderProcessor.processingHistory : Stack of history entries
    completedOrders,    \* OrderProcessor.completedOrders   : Queue of order references
    stats,              \* OrderProcessor.stats
    orders,             \* the order objects created by addOrder, in creation order
    inflight,           \* suspended processNextOrder invocations (microtask queue)
    result,             \* value returned by the latest call, or the value the promise
                        \* of a processNextOrder call settled with since
    now,                \* last value read from Date.now()
    undone,             \* number of undoLastOperation calls so far
    q,                  \* a stand-alone Queue instance
    s,                  \* a stand-alone Stack instance
    qLive,              \* elements enqueued on q and not yet removed, oldest first
    sLive,              \* elements pushed on s and not yet removed, oldest first
    ret,                \* value returned by the last operation on q or s
    call                \* a call of the sorting or search library: its arguments,
                        \* the algorithm applied last and the result it returned

orchVars == <<pendingOrders, processingHistory, completedOrders, stats, orders,
              inflight, result, now, undone>>
adtVars == <<q, s, qLive, sLive, ret>>
libVars == <<call>>
vars == <<pendingOrders, processingHistory, completedOrders, stats, orders,
          inflight, result, now, undone, q, s, qLive, sLive, ret, call>>

----------------------------------------------------------------------------
(* Bounds of the model *)

MaxOrders == 3      \* addOrder calls per run
MaxClock == 1       \* Date.now() takes the values 0..MaxClock
MaxRand == 1        \* the random suffix takes the values 1..MaxRand
MaxElapsed == 1     \* performance.now() differences take the values 1..MaxElapsed
MaxSearches == 1    \* searchOrder calls per run
MaxUndos == 1       \* undoLastOperation calls per run
MaxCount == 1       \* getProcessingHistory is called with count in 0..MaxCount
MaxInflight == 2    \* processNextOrder invocations suspended at the same time
MaxAsyncOrders == 2 \* addOrder calls per run of callers that do not wait
MaxSlots == 3       \* slots of the backing array of the stand-alone q and s
MaxElem == 2        \* the stand-alone q and s hold elements 1..MaxElem
MaxSortOrders == 2  \* addOrder calls per run of the callers that send large orders
MaxHistoryOrders == 2 \* addOrder calls per run of the callers that list the history
MaxHistoryCount == 3  \* those callers pass count in 0..MaxHistoryCount
MaxPriceOrders == 1 \* addOrder calls per run of the callers that price orders
MaxBooks == 2       \* their orders hold 1..MaxBooks books
MaxPrice == 2       \* with prices 0..MaxPrice
MaxQuantity == 2    \* and quantities 0..MaxQuantity
MaxLen == 4         \* the arrays handed to the library hold 0..MaxLen elements
MaxKey == 2         \* with keys 0..MaxKey; search targets are 0..MaxKey + 1
MaxWords == 2       \* fuzzySearch is handed 0..MaxWords strings
MaxThreshold == 3   \* and a threshold in 0..MaxThreshold

----------------------------------------------------------------------------
(* Absent values and arrays with holes *)

Absent == <<>>
Some(v) == <<v>>

Max(a, b) == IF a >= b THEN a ELSE b

\* arr[i] = v on a JavaScript array: slots between the old length and i are holes
SetSlot(arr, i, v) ==
    [k \in 1..Max(Len(arr), i + 1) |->
        IF k = i + 1 THEN v ELSE IF k <= Len(arr) THEN arr[k] ELSE Absent]

\* delete arr[i]: the slot becomes a hole, the length is kept
DeleteSlot(arr, i) ==
    IF i + 1 \in 1..Len(arr) THEN [arr EXCEPT ![i + 1] = Absent] ELSE arr

\* arr[i]: undefined outside the array
GetSlot(arr, i) ==
    IF i + 1 \in 1..Len(arr) THEN arr[i + 1] ELSE Absent

----------------------------------------------------------------------------
(* Queue.js *)

NewQueue == [items |-> <<>>, front |-> 0, rear |-> 0]

QIsEmpty(qu) == qu.rear = qu.front

QSize(qu) == qu.rear - qu.front

QEnqueue(qu, e) ==
    [qu EXCEPT !.items = SetSlot(qu.items, qu.rear, Some(e)), !.rear = qu.rear + 1]

\* dequeue(): the removed element (absent on an empty queue) and the queue left
QDequeueRear(qu) ==
    IF QIsEmpty(qu)
    THEN [item |-> Absent, queue |-> qu]
    ELSE LET item == GetSlot(qu.items, qu.rear - 1)
             q1 == [qu EXCEPT !.items = SubSeq(qu.items, 1, qu.rear - 1), !.rear = qu.rear - 1]
         IN [item |-> item,
             queue |-> IF q1.front = q1.rear THEN NewQueue ELSE q1]

QDequeueSecond(qu) ==
    IF QIsEmpty(qu)
    THEN [item |-> Absent, queue |-> qu]
    ELSE LET item == GetSlot(qu.items, qu.front + 1)
             q1 == [qu EXCEPT !.items = DeleteSlot(qu.items, qu.front),
                              !.front = qu.front + 1]
         IN [item |-> item,
             queue |-> IF q1.front = q1.rear THEN NewQueue ELSE q1]

QDequeueKeep(qu) ==
    IF QIsEmpty(qu)
    THEN [item |-> Absent, queue |-> qu]
    ELSE [item |-> GetSlot(qu.items, qu.front), queue |-> qu]

QDequeue(qu) ==
    IF QIsEmpty(qu)
    THEN [item |-> Absent, queue |-> qu]
    ELSE LET item == GetSlot(qu.items, qu.front)
             q1 == [qu EXCEPT !.items = DeleteSlot(qu.items, qu.front),
                              !.front = qu.front + 1]
         IN [item |-> item,
             queue |-> IF q1.front = q1.rear THEN NewQueue ELSE q1]

QPeekRear(qu) == IF QIsEmpty(qu) THEN Absent ELSE GetSlot(qu.items, qu.rear - 1)

QPeek(qu) == IF QIsEmpty(qu) THEN Absent ELSE GetSlot(qu.items, qu.front)

\* toArray(): the slots front..rear-1, front first
QToArray(qu) == [k \in 1..(qu.rear - qu.front) |-> GetSlot(qu.items, qu.front + k - 1)]

QClear(qu) == NewQueue

----------------------------------------------------------------------------
(* Stack.js *)

NewStack == [items |-> <<>>, top |-> -1]

SIsEmpty(st) == st.top = -1

SSize(st) == st.top + 1

SPush(st, e) ==
    [st EXCEPT !.items = SetSlot(st.items, st.top + 1, Some(e)), !.top = st.top + 1]

\* pop(): the removed element (absent on an empty stack) and the stack left
SPopBottom(st) ==
    IF SIsEmpty(st)
    THEN [item |-> Absent, stack |-> st]
    ELSE [item |-> GetSlot(st.items, 0),
          stack |-> [st EXCEPT !.items = DeleteSlot(Tail(st.items) \o <<Absent>>, st.top),
                               !.top = st.top - 1]]

SPopUnguarded(st) ==
    [item |-> GetSlot(st.items, st.top),
     stack |-> [st EXCEPT !.items = DeleteSlot(st.items, st.top), !.top = st.top - 1]]

SPop(st) ==
    IF SIsEmpty(st)
    THEN [item |-> Absent, stack |-> st]
    ELSE [item |-> GetSlot(st.items, st.top),
          stack |-> [st EXCEPT !.items = DeleteSlot(st.items, st.top),
                               !.top = st.top - 1]]

SPeek(st) == IF SIsEmpty(st) THEN Absent ELSE GetSlot(st.items, st.top)

\* toArray(): the slots 0..top, bottom first
SToArray(st) == [k \in 1..(st.top + 1) |-> GetSlot(st.items, k - 1)]

SClear(st) == NewStack

----------------------------------------------------------------------------
(* SortingAlgorithms (comparator-based sorts).  compare(a, b) means "a sorts
   after b".  The execution metrics of a result (time, comparisons, swaps)
   are not modelled. *)

\* One line item of an order: {book: {title, price}, quantity}; null is Absent
Item(t, p, n) == Some([title |-> t, price |-> p, quantity |-> n])
NullItem == Absent

\* The comparators the callers pass, named by a tag:
\*   "title" is (a, b) => a.book?.title > b.book?.title of sortBooksInOrder,
\*   "asc" is the default (a, b) => a > b, "desc" is (a, b) => a < b,
\*   "keyAsc" and "keyDesc" are the compareFunction of getBooks for order
\*   'asc' and 'desc': a[sortBy] > b[sortBy] and a[sortBy] < b[sortBy]
Compare(cmp, a, b) ==
    CASE cmp = "title"   -> a[1].title > b[1].title
      [] cmp = "asc"     -> a > b
      [] cmp = "desc"    -> a < b
      [] cmp = "keyAsc"  -> a.key > b.key
      [] cmp = "keyDesc" -> a.key < b.key

Swap(arr, i, j) == [arr EXCEPT ![i] = arr[j], ![j] = arr[i]]

RECURSIVE InsertionShiftSkipFirst(_, _, _, _)
InsertionShiftSkipFirst(res, key, j, cmp) ==
    IF j >= 2 /\ Compare(cmp, res[j], key)
    THEN InsertionShiftSkipFirst([res EXCEPT ![j + 1] = res[j]], key, j - 1, cmp)
    ELSE [res EXCEPT ![j + 1] = key]

\* inner while loop of insertionSort; j is the 1-based slot compared with key
RECURSIVE InsertionShift(_, _, _, _)
InsertionShift(res, key, j, cmp) ==
    IF j >= 1 /\ Compare(cmp, res[j], key)
    THEN InsertionShift([res EXCEPT ![j + 1] = res[j]], key, j - 1, cmp)
    ELSE [res EXCEPT ![j + 1] = key]

\* outer for loop of insertionSort; i is the 1-based slot of the key
RECURSIVE InsertionLoop(_, _, _)
InsertionLoop(res, i, cmp) ==
    IF i > Len(res) THEN res
    ELSE InsertionLoop(InsertionShift(res, res[i], i - 1, cmp), i + 1, cmp)

insertionSort(arr, cmp) ==
    [sortedArray |-> InsertionLoop(arr, 2, cmp), algorithm |-> "Insertion Sort"]

\* inner for loop of selectionSort: the slot of the element no other sorts before
RECURSIVE SelectMin(_, _, _, _)
SelectMin(res, minIndex, j, cmp) ==
    IF j > Len(res) THEN minIndex
    ELSE SelectMin(res, IF Compare(cmp, res[minIndex], res[j]) THEN j ELSE minIndex,
                   j + 1, cmp)

\* outer for loop of selectionSort; i is the 1-based slot being filled
RECURSIVE SelectionLoop(_, _, _)
SelectionLoop(res, i, cmp) ==
    IF i > Len(res) - 1 THEN res
    ELSE LET minIndex == SelectMin(res, i, i + 1, cmp)
         IN SelectionLoop(IF minIndex # i THEN Swap(res, i, minIndex) ELSE res,
                          i + 1, cmp)

selectionSort(arr, cmp) ==
    [sortedArray |-> SelectionLoop(arr, 1, cmp), algorithm |-> "Selection Sort"]

\* for loop of partition: scans j = low..high-1 against the pivot arr[high]
RECURSIVE PartitionLoop(_, _, _, _, _)
PartitionLoop(arr, j, i, high, cmp) ==
    IF j >= high THEN [arr |-> arr, i |-> i]
    ELSE IF ~Compare(cmp, arr[j], arr[high])
         THEN PartitionLoop(IF i + 1 # j THEN Swap(arr, i + 1, j) ELSE arr,
                            j + 1, i + 1, high, cmp)
         ELSE PartitionLoop(arr, j + 1, i, high, cmp)

partition(arr, low, high, cmp) ==
    LET p == PartitionLoop(arr, low, low - 1, high, cmp)
    IN [arr |-> IF p.i + 1 # high THEN Swap(p.arr, p.i + 1, high) ELSE p.arr,
        pivotIndex |-> p.i + 1]

RECURSIVE quickSortHelper(_, _, _, _)
quickSortHelper(arr, low, high, cmp) ==
    IF low < high
    THEN LET p == partition(arr, low, high, cmp)
         IN quickSortHelper(quickSortHelper(p.arr, low, p.pivotIndex - 1, cmp),
                            p.pivotIndex + 1, high, cmp)
    ELSE arr

quickSort(arr, cmp) ==
    [sortedArray |-> quickSortHelper(arr, 1, Len(arr), cmp), algorithm |-> "Quick Sort"]

RECURSIVE mergeRightOnTie(_, _, _)
mergeRightOnTie(left, right, cmp) ==
    IF left = <<>> THEN right
    ELSE IF right = <<>> THEN left
    ELSE IF Compare(cmp, Head(right), Head(left))
         THEN <<Head(left)>> \o mergeRightOnTie(Tail(left), right, cmp)
         ELSE <<Head(right)>> \o mergeRightOnTie(left, Tail(right), cmp)

RECURSIVE merge(_, _, _)
merge(left, right, cmp) ==
    IF left = <<>> THEN right
    ELSE IF right = <<>> THEN left
    ELSE IF ~Compare(cmp, Head(left), Head(right))
         THEN <<Head(left)>> \o merge(Tail(left), right, cmp)
         ELSE <<Head(right)>> \o merge(left, Tail(right), cmp)

RECURSIVE mergeSortHelper(_, _)
mergeSortHelper(arr, cmp) ==
    IF Len(arr) <= 1 THEN arr
    ELSE LET mid == Len(arr) \div 2
         IN merge(mergeSortHelper(SubSeq(arr, 1, mid), cmp),
                  mergeSortHelper(SubSeq(arr, mid + 1, Len(arr)), cmp), cmp)

mergeSort(arr, cmp) ==
    [sortedArray |-> mergeSortHelper(arr, cmp), algorithm |-> "Merge Sort"]

----------------------------------------------------------------------------
(* SearchAlgorithms.  Strings that are compared character by character are
   sequences of one-character strings.  The execution metrics of a result
   are not modelled. *)

\* String.prototype.toLowerCase on the letters the model uses
LowerChar(c) ==
    CASE c = "A" -> "a"
      [] c = "B" -> "b"
      [] c = "C" -> "c"
      [] c = "D" -> "d"
      [] OTHER -> c

toLowerCase(str) == [k \in 1..Len(str) |-> LowerChar(str[k])]

\* The key functions the callers pass, named by a tag
GetKey(key, item) ==
    CASE key = "orderNumber" -> Some(item.orderNumber)
      [] key = "customer"    -> item.customer
      [] key = "status"      -> Some(item.status)
      [] key = "identity"    -> Some(item)
      [] key = "key"         -> Some(item.key)

RECURSIVE LinearScan(_, _, _, _)
LinearScan(arr, target, key, i) ==
    IF i > Len(arr)
    THEN [found |-> FALSE, index |-> -1, element |-> Absent, algorithm |-> "Linear Search"]
    ELSE IF GetKey(key, arr[i]) = Some(target)
         THEN [found |-> TRUE, index |-> i - 1, element |-> Some(arr[i]),
               algorithm |-> "Linear Search"]
         ELSE LinearScan(arr, target, key, i + 1)

linearSearch(arr, target, key) == LinearScan(arr, target, key, 1)

RECURSIVE BinaryLoopExclusive(_, _, _, _, _)
BinaryLoopExclusive(sortedArr, target, key, left, right) ==
    IF left >= right
    THEN [found |-> FALSE, index |-> -1, element |-> Absent, algorithm |-> "Binary Search"]
    ELSE LET mid == (left + right) \div 2
             midValue == GetKey(key, sortedArr[mid + 1])[1]
         IN IF midValue = target
            THEN [found |-> TRUE, index |-> mid, element |-> Some(sortedArr[mid + 1]),
                  algorithm |-> "Binary Search"]
            ELSE IF midValue < target
                 THEN BinaryLoopExclusive(sortedArr, target, key, mid + 1, right)
                 ELSE BinaryLoopExclusive(sortedArr, target, key, left, mid - 1)

\* while loop of binarySearch; left and right are the 0-based bounds
RECURSIVE BinaryLoop(_, _, _, _, _)
BinaryLoop(sortedArr, target, key, left, right) ==
    IF left > right
    THEN [found |-> FALSE, index |-> -1, element |-> Absent, algorithm |-> "Binary Search"]
    ELSE LET mid == (left + right) \div 2
             midValue == GetKey(key, sortedArr[mid + 1])[1]
         IN IF midValue = target
            THEN [found |-> TRUE, index |-> mid, element |-> Some(sortedArr[mid + 1]),
                  algorithm |-> "Binary Search"]
            ELSE IF midValue < target
                 THEN BinaryLoop(sortedArr, target, key, mid + 1, right)
                 ELSE BinaryLoop(sortedArr, target, key, left, mid - 1)

binarySearch(sortedArr, target, key) ==
    BinaryLoop(sortedArr, target, key, 0, Len(sortedArr) - 1)

\* hashTable.set(key, {index, element}) for every slot: a later slot with the
\* same key overwrites an earlier one
hashSearch(data, target, key) ==
    LET hits == {i \in 1..Len(data) : GetKey(key, data[i]) = Some(target)}
    IN IF hits = {}
       THEN [found |-> FALSE, index |-> -1, element |-> Absent, algorithm |-> "Hash Search"]
       ELSE LET last == CHOOSE i \in hits : \A k \in hits : k <= i
            IN [found |-> TRUE, index |-> last - 1, element |-> Some(data[last]),
                algorithm |-> "Hash Search"]

Min3(a, b, c) == IF a <= b /\ a <= c THEN a ELSE IF b <= c THEN b ELSE c

\* One row of the distance matrix: cur holds the columns 0..j-1 of row i,
\* prev holds row i-1, c2 is str2.charAt(i-1)
RECURSIVE LevCells(_, _, _, _, _)
LevCells(prev, cur, j, c2, str1) ==
    IF j > Len(str1) THEN cur
    ELSE LevCells(prev,
                  Append(cur, IF c2 = str1[j]
                              THEN prev[j]
                              ELSE Min3(prev[j] + 1, cur[j] + 1, prev[j + 1] + 1)),
                  j + 1, c2, str1)

RECURSIVE LevRows(_, _, _, _)
LevRows(prev, i, str1, str2) ==
    IF i > Len(str2) THEN prev[Len(str1) + 1]
    ELSE LET row == LevCells(prev, <<i>>, 1, str2[i], str1)
         IN \* row i holds the columns 0..str1.length before row i + 1 is started
            CASE Len(row) = Len(str1) + 1 -> LevRows(row, i + 1, str1, str2)

levenshteinDistance(str1, str2) ==
    LevRows([j \in 1..(Len(str1) + 1) |-> j - 1], 1, str1, str2)

\* similarity = 1 - distance / maxLen; a is more similar than b
MoreSimilar(a, b) == a.distance * b.maxLen < b.distance * a.maxLen

\* results.sort((a, b) => b.similarity - a.similarity): stable, most similar first
RECURSIVE InsertBySimilarity(_, _)
InsertBySimilarity(sorted, m) ==
    IF sorted = <<>> THEN <<m>>
    ELSE IF MoreSimilar(m, Head(sorted)) THEN <<m>> \o sorted
    ELSE <<Head(sorted)>> \o InsertBySimilarity(Tail(sorted), m)

RECURSIVE SortBySimilarity(_, _)
SortBySimilarity(results, k) ==
    IF k = 0 THEN <<>>
    ELSE InsertBySimilarity(SortBySimilarity(results, k - 1), results[k])

RECURSIVE FuzzyScanExact(_, _, _, _, _)
FuzzyScanExact(data, query, key, threshold, i) ==
    IF i > Len(data) THEN <<>>
    ELSE LET text == toLowerCase(GetKey(key, data[i])[1])
             distance == levenshteinDistance(toLowerCase(query), text)
             rest == FuzzyScanExact(data, query, key, threshold, i + 1)
         IN IF distance = threshold
            THEN <<[index |-> i - 1, element |-> data[i], distance |-> distance,
                    maxLen |-> Max(Len(query), Len(text))]>> \o rest
            ELSE rest

\* the candidates within the threshold, in data order
RECURSIVE FuzzyScan(_, _, _, _, _)
FuzzyScan(data, query, key, threshold, i) ==
    IF i > Len(data) THEN <<>>
    ELSE LET text == toLowerCase(GetKey(key, data[i])[1])
             distance == levenshteinDistance(toLowerCase(query), text)
             rest == FuzzyScan(data, query, key, threshold, i + 1)
         IN IF distance <= threshold
            THEN <<[index |-> i - 1, element |-> data[i], distance |-> distance,
                    maxLen |-> Max(Len(query), Len(text))]>> \o rest
            ELSE rest

\* getKey(data[i]).toLowerCase() throws on a key that is undefined
FuzzyThrows(data, key) == \E i \in 1..Len(data) : GetKey(key, data[i]) = Absent

fuzzySearch(data, query, key, threshold) ==
    LET results == FuzzyScan(data, query, key, threshold, 1)
        matches == SortBySimilarity(results, Len(results))
    IN [found |-> Len(matches) > 0, matches |-> matches, algorithm |-> "Fuzzy Search",
        threshold |-> threshold]

----------------------------------------------------------------------------
(* OrderProcessor: data *)

\* Request bodies handed to addOrder by createOrder: {customer, books, totalPrice}
OrderInputs ==
    { [books |-> Some(<<Item(2, 5, 1), Item(1, 3, 2)>>), customer |-> Some(<<"a", "b">>),
       totalPrice |-> 0],
      [books |-> Some(<<>>), customer |-> Some(<<"a", "b">>), totalPrice |-> 0],
      [books |-> Some(<<Item(1, 3, 2)>>), customer |-> Absent, totalPrice |-> 0],
      [books |-> Some(<<NullItem>>), customer |-> Some(<<"a", "c">>), totalPrice |-> 0] }

\* Numbers of books on both sides of the thresholds of sortBooksInOrder
SortSizes == {1, 2, 10, 11, 50, 51}

\* Request bodies with customer information and n priced books whose titles
\* are not in order, and one without books
SortInputs ==
    { [books |-> Some([k \in 1..n |-> Item((k * 7) % 11, 1, 1)]),
       customer |-> Some(<<"a", "b">>), totalPrice |-> 0] : n \in SortSizes }
    \cup { [books |-> Some(<<>>), customer |-> Some(<<"a", "b">>), totalPrice |-> 0] }

\* Request bodies with customer information, books of every price and
\* quantity and a totalPrice chosen by the caller, and one without books
PriceInputs ==
    { [books |-> Some([k \in 1..Len(f) |-> Item(k, f[k][1], f[k][2])]),
       customer |-> Some(<<"a", "b">>), totalPrice |-> total] :
          f \in UNION { [1..n -> (0..MaxPrice) \X (0..MaxQuantity)] : n \in 1..MaxBooks },
          total \in {0, 7} }
    \cup { [books |-> Some(<<>>), customer |-> Some(<<"a", "b">>), totalPrice |-> 0] }

\* `ORD-${Date.now()}-${random suffix}`: the two parts are kept apart by "-",
\* so the string is determined by, and determines, the pair
generateOrderNumber(clock, suffix) == <<clock, suffix>>

EmptyStats ==
    [totalProcessed |-> 0,
     averageProcessingTime |-> [num |-> 0, den |-> 1],
     sorting |-> [a \in {"Insertion Sort", "Quick Sort", "Merge Sort"} |-> 0],
     searching |-> [a \in {"Linear Search", "Fuzzy Search", "Hash Search"} |-> 0]]

\* order.processingSteps.push(label)
PushStep(order, label) ==
    [order EXCEPT !.processingSteps = Append(order.processingSteps, label)]

validateOrderBooksOnly(order) ==
    IF order.books = Absent \/ Len(order.books[1]) = 0
    THEN Some("Order must contain at least one book")
    ELSE Absent

\* validateOrder: the message of the error thrown, absent when it returns true
validateOrder(order) ==
    IF order.books = Absent \/ Len(order.books[1]) = 0
    THEN Some("Order must contain at least one book")
    ELSE IF order.customer = Absent
         THEN Some("Order must have customer information")
         ELSE Absent

\* checkBookAvailability: always returns true
checkBookAvailability(order) == Absent

\* sortBooksInOrder: the sorting result and the statistics after the call
sortBooksInOrder(order, st) ==
    IF order.books = Absent \/ Len(order.books[1]) <= 1
    THEN [sortingResult |->
              [sortedArray |-> IF order.books = Absent THEN <<>> ELSE order.books[1],
               algorithm |-> "No sorting needed"],
          stats |-> st]
    ELSE LET bookCount == Len(order.books[1])
             sortingResult ==
                 IF bookCount <= 10 THEN insertionSort(order.books[1], "title")
                 ELSE IF bookCount <= 50 THEN quickSort(order.books[1], "title")
                 ELSE mergeSort(order.books[1], "title")
         IN [sortingResult |-> sortingResult,
             stats |-> [st EXCEPT !.sorting[sortingResult.algorithm] = @ + 1]]

\* (item.book?.price || 0) * (item.quantity || 1), summed over the items
RECURSIVE SumItems(_)
SumItems(books) ==
    IF books = <<>> THEN 0
    ELSE LET item == Head(books)[1]
         IN item.price * (IF item.quantity = 0 THEN 1 ELSE item.quantity)
            + SumItems(Tail(books))

\* calculateTotalAndUpdateInventory: reading .book of a null item throws
calculateTotalAndUpdateInventory(order) ==
    IF \E k \in 1..Len(order.books[1]) : order.books[1][k] = NullItem
    THEN [rejected |-> Some("Cannot read properties of null (reading 'book')"),
          order |-> order]
    ELSE [rejected |-> Absent,
          order |-> [order EXCEPT !.totalPrice = SumItems(order.books[1])]]

RECURSIVE GCD(_, _)
GCD(a, b) == IF b = 0 THEN a ELSE GCD(b, a % b)

\* a fraction in lowest terms
Fraction(n, d) == LET g == GCD(n, d) IN [num |-> n \div g, den |-> d \div g]

updateProcessingStatsNoCount(st, processingTime) ==
    [st EXCEPT !.averageProcessingTime = Fraction(processingTime, 1)]

updateProcessingStatsTwice(st, processingTime) ==
    [st EXCEPT !.totalProcessed = @ + 2]

\* updateProcessingStats: the count goes up by one, the mean is updated in place
updateProcessingStats(st, processingTime) ==
    LET n == st.totalProcessed + 1
        avg == st.averageProcessingTime
    IN [st EXCEPT !.totalProcessed = n,
                  !.averageProcessingTime =
                      Fraction(avg.num * (n - 1) + processingTime * avg.den, avg.den * n)]

\* the orders a queue refers to, front first
Deref(qu) == [k \in 1..QSize(qu) |-> orders[QToArray(qu)[k][1]]]

\* the order references held by a queue
Refs(qu) == {QToArray(qu)[k][1] : k \in 1..QSize(qu)}

\* what a suspended processNextOrder saw when it was called
Snapshot ==
    [pendingOrders |-> pendingOrders, completedOrders |-> completedOrders,
     processingHistory |-> processingHistory, stats |-> stats, orders |-> orders]

----------------------------------------------------------------------------
(* OrderProcessor: entry points.  addOrder, searchOrder, getQueueStatus,
   getProcessingHistory and undoLastOperation contain no await and run to
   completion in one step.  processNextOrder suspends at each of its four
   awaits; the continuation is a microtask, and microtasks run in the order
   in which they were queued. *)

NewOrder(orderData, orderNumber) ==
    [orderNumber |-> orderNumber, status |-> "Pending",
     books |-> orderData.books, customer |-> orderData.customer,
     totalPrice |-> orderData.totalPrice, processingSteps |-> <<>>,
     sortingAlgorithm |-> Absent, error |-> Absent]

AddOrderStalePosition(orderData, clock, suffix) ==
    /\ LET orderNumber == generateOrderNumber(clock, suffix)
           ref == Len(orders) + 1
       IN /\ Len(orders) < MaxOrders
          /\ now' = clock
          /\ orders' = Append(orders, NewOrder(orderData, orderNumber))
          /\ pendingOrders' = QEnqueue(pendingOrders, ref)
          /\ processingHistory' =
                 SPush(processingHistory,
                       [action |-> "ORDER_ADDED", orderNumber |-> orderNumber,
                        queueSize |-> QSize(pendingOrders')])
          /\ result' = [op |-> "addOrder", success |-> TRUE, orderNumber |-> orderNumber,
                        queuePosition |-> QSize(pendingOrders),
                        message |-> "Order added to processing queue"]
          /\ UNCHANGED <<completedOrders, stats, inflight>>
    /\ UNCHANGED <<undone, adtVars, libVars>>

AddOrder(orderData, clock, suffix) ==
    /\ LET orderNumber == generateOrderNumber(clock, suffix)
           ref == Len(orders) + 1
       IN /\ Len(orders) < MaxOrders
          /\ now' = clock
          /\ orders' = Append(orders, NewOrder(orderData, orderNumber))
          /\ pendingOrders' = QEnqueue(pendingOrders, ref)
          /\ processingHistory' =
                 SPush(processingHistory,
                       [action |-> "ORDER_ADDED", orderNumber |-> orderNumber,
                        queueSize |-> QSize(pendingOrders')])
          /\ result' = [op |-> "addOrder", success |-> TRUE, orderNumber |-> orderNumber,
                        queuePosition |-> QSize(pendingOrders'),
                        message |-> "Order added to processing queue"]
          /\ UNCHANGED <<completedOrders, stats, inflight>>
    /\ UNCHANGED <<undone, adtVars, libVars>>

EmptyQueueResult ==
    [op |-> "processNextOrder", success |-> FALSE,
     message |-> "No orders in queue to process"]

\* processNextOrder up to its first await: the emptiness check, the dequeue,
\* and the call of validateOrder
ProcessNextOrderNoGuard ==
    /\ Len(inflight) < MaxInflight
    /\ IF QIsEmpty(pendingOrders)
       THEN /\ result' = EmptyQueueResult
            /\ processingHistory' =
                   SPush(processingHistory,
                         [action |-> "ORDER_ERROR", orderNumber |-> <<0, 0>>,
                          error |-> "No orders in queue to process"])
            /\ UNCHANGED <<pendingOrders, completedOrders, stats, orders,
                           inflight, now>>
       ELSE LET d == QDequeue(pendingOrders)
                ref == d.item[1]
                order == PushStep(orders[ref], "Order validation started")
            IN /\ pendingOrders' = d.queue
               /\ orders' = [orders EXCEPT ![ref] = order]
               /\ inflight' = Append(inflight,
                                     [order |-> ref, awaiting |-> "validateOrder",
                                      rejected |-> validateOrder(order),
                                      value |-> Absent, pre |-> Snapshot])
               /\ result' = [op |-> "processNextOrder", settled |-> FALSE]
               /\ UNCHANGED <<processingHistory, completedOrders, stats, now>>
    /\ UNCHANGED <<undone, adtVars, libVars>>

ProcessNextOrder ==
    /\ Len(inflight) < MaxInflight
    /\ IF QIsEmpty(pendingOrders)
       THEN /\ result' = EmptyQueueResult
            /\ UNCHANGED <<pendingOrders, processingHistory, completedOrders, stats,
                           orders, inflight, now>>
       ELSE LET d == QDequeue(pendingOrders)
                ref == d.item[1]
                order == PushStep(orders[ref], "Order validation started")
            IN /\ pendingOrders' = d.queue
               /\ orders' = [orders EXCEPT ![ref] = order]
               /\ inflight' = Append(inflight,
                                     [order |-> ref, awaiting |-> "validateOrder",
                                      rejected |-> validateOrder(order),
                                      value |-> Absent, pre |-> Snapshot])
               /\ result' = [op |-> "processNextOrder", settled |-> FALSE]
               /\ UNCHANGED <<processingHistory, completedOrders, stats, now>>
    /\ UNCHANGED <<undone, adtVars, libVars>>

\* The continuation at the head of the microtask queue
Cont == Head(inflight)

\* the continuation suspends again at its next await and joins the queue's tail
Requeue(c) == Append(Tail(inflight), c)

\* after `await this.validateOrder(order)` returned: step 2 up to its await
ResumeAfterValidate ==
    /\ inflight # <<>>
    /\ Cont.rejected = Absent
    /\ Cont.awaiting = "validateOrder"
    /\ LET order == PushStep(orders[Cont.order], "Book availability check")
       IN /\ orders' = [orders EXCEPT ![Cont.order] = order]
          /\ inflight' = Requeue([Cont EXCEPT !.awaiting = "checkBookAvailability",
                                              !.rejected = checkBookAvailability(order)])
    /\ UNCHANGED <<pendingOrders, processingHistory, completedOrders, stats, result, now>>
    /\ UNCHANGED <<undone, adtVars, libVars>>

\* after `await this.checkBookAvailability(order)`: step 3 up to its await
ResumeAfterAvailability ==
    /\ inflight # <<>>
    /\ Cont.rejected = Absent
    /\ Cont.awaiting = "checkBookAvailability"
    /\ LET order == PushStep(orders[Cont.order], "Sorting books in order")
           sorted == sortBooksInOrder(order, stats)
       IN /\ orders' = [orders EXCEPT ![Cont.order] = order]
          /\ stats' = sorted.stats
          /\ inflight' = Requeue([Cont EXCEPT !.awaiting = "sortBooksInOrder",
                                              !.value = Some(sorted.sortingResult)])
    /\ UNCHANGED <<pendingOrders, processingHistory, completedOrders, result, now>>
    /\ UNCHANGED <<undone, adtVars, libVars>>

\* after `await this.sortBooksInOrder(order)`: the sorted books are stored,
\* then step 4 up to its await
ResumeAfterSort ==
    /\ inflight # <<>>
    /\ Cont.rejected = Absent
    /\ Cont.awaiting = "sortBooksInOrder"
    /\ LET sortedBooks == Cont.value[1]
           order == PushStep([orders[Cont.order] EXCEPT
                                  !.books = Some(sortedBooks.sortedArray),
                                  !.sortingAlgorithm = Some(sortedBooks.algorithm)],
                             "Calculating total and updating inventory")
           priced == calculateTotalAndUpdateInventory(order)
       IN /\ orders' = [orders EXCEPT ![Cont.order] = priced.order]
          /\ inflight' = Requeue([Cont EXCEPT
                                      !.awaiting = "calculateTotalAndUpdateInventory",
                                      !.rejected = priced.rejected,
                                      !.value = Absent])
    /\ UNCHANGED <<pendingOrders, processingHistory, completedOrders, stats, result, now>>
    /\ UNCHANGED <<undone, adtVars, libVars>>

\* after `await this.calculateTotalAndUpdateInventory(order)`: step 5, the
\* history push, the move to the completed queue, the statistics, the return
ResumeAfterPricing(processingTime) ==
    /\ inflight # <<>>
    /\ Cont.rejected = Absent
    /\ Cont.awaiting = "calculateTotalAndUpdateInventory"
    /\ LET order == [orders[Cont.order] EXCEPT !.status = "Processing"]
       IN /\ orders' = [orders EXCEPT ![Cont.order] = order]
          /\ processingHistory' =
                 SPush(processingHistory,
                       [action |-> "ORDER_PROCESSED", orderNumber |-> order.orderNumber,
                        processingTime |-> processingTime,
                        algorithm |-> order.sortingAlgorithm])
          /\ completedOrders' = QEnqueue(completedOrders, Cont.order)
          /\ stats' = updateProcessingStats(stats, processingTime)
          /\ result' = [op |-> "processNextOrder", success |-> TRUE,
                        order |-> Cont.order, processingTime |-> processingTime,
                        remainingInQueue |-> QSize(pendingOrders)]
    /\ inflight' = Tail(inflight)
    /\ UNCHANGED <<pendingOrders, now>>
    /\ UNCHANGED <<undone, adtVars, libVars>>

ResumeCatchRequeue ==
    /\ inflight # <<>>
    /\ Cont.rejected # Absent
    /\ LET order == [orders[Cont.order] EXCEPT !.status = "Error",
                                                !.error = Cont.rejected]
       IN /\ orders' = [orders EXCEPT ![Cont.order] = order]
          /\ processingHistory' =
                 SPush(processingHistory,
                       [action |-> "ORDER_ERROR", orderNumber |-> order.orderNumber,
                        error |-> Cont.rejected[1]])
          /\ result' = [op |-> "processNextOrder", success |-> FALSE,
                        orderNumber |-> order.orderNumber, error |-> Cont.rejected[1]]
    /\ pendingOrders' = QEnqueue(pendingOrders, Cont.order)
    /\ inflight' = Tail(inflight)
    /\ UNCHANGED <<completedOrders, stats, now>>
    /\ UNCHANGED <<undone, adtVars, libVars>>

\* the awaited call threw: the catch block
ResumeCatch ==
    /\ inflight # <<>>
    /\ Cont.rejected # Absent
    /\ LET order == [orders[Cont.order] EXCEPT !.status = "Error",
                                                !.error = Cont.rejected]
       IN /\ orders' = [orders EXCEPT ![Cont.order] = order]
          /\ processingHistory' =
                 SPush(processingHistory,
                       [action |-> "ORDER_ERROR", orderNumber |-> order.orderNumber,
                        error |-> Cont.rejected[1]])
          /\ result' = [op |-> "processNextOrder", success |-> FALSE,
                        orderNumber |-> order.orderNumber, error |-> Cont.rejected[1]]
    /\ inflight' = Tail(inflight)
    /\ UNCHANGED <<pendingOrders, completedOrders, stats, now>>
    /\ UNCHANGED <<undone, adtVars, libVars>>

\* The (searchTerm, searchType) pairs callers pass; a type searchOrder does
\* not name falls to its default branch
SearchRequests ==
    << [term |-> <<0, 1>>, type |-> "orderNumber"],
       [term |-> <<"a", "b">>, type |-> "customer"],
       [term |-> "Pending", type |-> "status"],
       [term |-> <<0, 1>>, type |-> "other"] >>

SearchesDone ==
    stats.searching["Linear Search"] + stats.searching["Fuzzy Search"]
        + stats.searching["Hash Search"]

SearchOrderDraining(searchTerm, searchType) ==
    /\ LET allOrders == Deref(pendingOrders) \o Deref(completedOrders)
           throws == searchType = "customer" /\ FuzzyThrows(allOrders, "customer")
           searchResult ==
               CASE searchType = "orderNumber" ->
                        linearSearch(allOrders, searchTerm, "orderNumber")
                 [] searchType = "customer" ->
                        fuzzySearch(allOrders, searchTerm, "customer", 2)
                 [] searchType = "status" ->
                        linearSearch(allOrders, searchTerm, "status")
                 [] OTHER -> hashSearch(allOrders, searchTerm, "orderNumber")
       IN /\ SearchesDone < MaxSearches
          /\ pendingOrders' = QDequeue(pendingOrders).queue
          /\ IF throws
             THEN /\ result' = [op |-> "searchOrder", thrown |-> TRUE]
                  /\ UNCHANGED stats
             ELSE /\ stats' = [stats EXCEPT !.searching[searchResult.algorithm] = @ + 1]
                  /\ result' = [op |-> "searchOrder", thrown |-> FALSE,
                                search |-> searchResult, searchTerm |-> searchTerm,
                                searchType |-> searchType, totalOrders |-> Len(allOrders)]
          /\ UNCHANGED <<processingHistory, completedOrders, orders, inflight, now>>
    /\ UNCHANGED <<undone, adtVars, libVars>>

SearchOrder(searchTerm, searchType) ==
    /\ LET allOrders == Deref(pendingOrders) \o Deref(completedOrders)
           throws == searchType = "customer" /\ FuzzyThrows(allOrders, "customer")
           searchResult ==
               CASE searchType = "orderNumber" ->
                        linearSearch(allOrders, searchTerm, "orderNumber")
                 [] searchType = "customer" ->
                        fuzzySearch(allOrders, searchTerm, "customer", 2)
                 [] searchType = "status" ->
                        linearSearch(allOrders, searchTerm, "status")
                 [] OTHER -> hashSearch(allOrders, searchTerm, "orderNumber")
       IN /\ SearchesDone < MaxSearches
          /\ IF throws
             THEN /\ result' = [op |-> "searchOrder", thrown |-> TRUE]
                  /\ UNCHANGED stats
             ELSE /\ stats' = [stats EXCEPT !.searching[searchResult.algorithm] = @ + 1]
                  /\ result' = [op |-> "searchOrder", thrown |-> FALSE,
                                search |-> searchResult, searchTerm |-> searchTerm,
                                searchType |-> searchType, totalOrders |-> Len(allOrders)]
          /\ UNCHANGED <<pendingOrders, processingHistory, completedOrders, orders,
                         inflight, now>>
    /\ UNCHANGED <<undone, adtVars, libVars>>

GetQueueStatus ==
    /\ result' = [op |-> "getQueueStatus",
                  pendingOrders |-> QSize(pendingOrders),
                  completedOrders |-> QSize(completedOrders),
                  processingHistorySize |-> SSize(processingHistory),
                  nextOrder |-> QPeek(pendingOrders),
                  lastProcessed |-> SPeek(processingHistory),
                  statistics |-> stats]
    /\ UNCHANGED <<pendingOrders, processingHistory, completedOrders, stats, orders,
                   inflight, now>>
    /\ UNCHANGED <<undone, adtVars, libVars>>

\* first loop of getProcessingHistory: pops up to count entries into the
\* returned list and onto the scratch stack
RECURSIVE DrainHistory(_, _, _, _, _)
DrainHistory(i, count, stack, history, tempStack) ==
    IF i < count /\ ~SIsEmpty(stack)
    THEN LET p == SPop(stack)
         IN DrainHistory(i + 1, count, p.stack, Append(history, p.item[1]),
                         SPush(tempStack, p.item[1]))
    ELSE [stack |-> stack, history |-> history, tempStack |-> tempStack]

\* second loop of getProcessingHistory: pushes the scratch stack back
RECURSIVE RestoreHistoryBottomFirst(_, _)
RestoreHistoryBottomFirst(stack, tempStack) ==
    IF ~SIsEmpty(tempStack)
    THEN LET p == SPopBottom(tempStack)
         IN RestoreHistoryBottomFirst(SPush(stack, p.item[1]), p.stack)
    ELSE stack

RECURSIVE RestoreHistory(_, _)
RestoreHistory(stack, tempStack) ==
    IF ~SIsEmpty(tempStack)
    THEN LET p == SPop(tempStack)
         IN RestoreHistory(SPush(stack, p.item[1]), p.stack)
    ELSE stack

GetProcessingHistoryNoRestore(count) ==
    /\ LET drained == DrainHistory(0, count, processingHistory, <<>>, NewStack)
       IN /\ processingHistory' = drained.stack
          /\ result' = [op |-> "getProcessingHistory", count |-> count,
                        history |-> drained.history]
          /\ UNCHANGED <<pendingOrders, completedOrders, stats, orders, inflight, now>>
    /\ UNCHANGED <<undone, adtVars, libVars>>

GetProcessingHistory(count) ==
    /\ LET drained == DrainHistory(0, count, processingHistory, <<>>, NewStack)
       IN /\ processingHistory' = RestoreHistory(drained.stack, drained.tempStack)
          /\ result' = [op |-> "getProcessingHistory", count |-> count,
                        history |-> drained.history]
          /\ UNCHANGED <<pendingOrders, completedOrders, stats, orders, inflight, now>>
    /\ UNCHANGED <<undone, adtVars, libVars>>

UndoLastOperationPeek ==
    /\ undone < MaxUndos
    /\ undone' = undone + 1
    /\ IF SIsEmpty(processingHistory)
       THEN /\ result' = [op |-> "undoLastOperation", success |-> FALSE,
                          message |-> "No operations to undo"]
            /\ UNCHANGED <<pendingOrders, processingHistory, completedOrders, stats,
                           orders, inflight, now>>
       ELSE LET p == SPop(processingHistory)
                lastOperation == p.item[1]
            IN /\ processingHistory' = processingHistory
               /\ result' = IF lastOperation.action = "ORDER_PROCESSED"
                            THEN [op |-> "undoLastOperation", success |-> TRUE,
                                  message |-> "Undid processing of order",
                                  operation |-> lastOperation]
                            ELSE [op |-> "undoLastOperation", success |-> FALSE,
                                  message |-> "Cannot undo this type of operation"]
               /\ UNCHANGED <<pendingOrders, completedOrders, stats, orders,
                              inflight, now>>
    /\ UNCHANGED <<adtVars, libVars>>

UndoLastOperation ==
    /\ undone < MaxUndos
    /\ undone' = undone + 1
    /\ IF SIsEmpty(processingHistory)
       THEN /\ result' = [op |-> "undoLastOperation", success |-> FALSE,
                          message |-> "No operations to undo"]
            /\ UNCHANGED <<pendingOrders, processingHistory, completedOrders, stats,
                           orders, inflight, now>>
       ELSE LET p == SPop(processingHistory)
                lastOperation == p.item[1]
            IN /\ processingHistory' = p.stack
               /\ result' = IF lastOperation.action = "ORDER_PROCESSED"
                            THEN [op |-> "undoLastOperation", success |-> TRUE,
                                  message |-> "Undid processing of order",
                                  operation |-> lastOperation]
                            ELSE [op |-> "undoLastOperation", success |-> FALSE,
                                  message |-> "Cannot undo this type of operation"]
               /\ UNCHANGED <<pendingOrders, completedOrders, stats, orders,
                              inflight, now>>
    /\ UNCHANGED <<adtVars, libVars>>

----------------------------------------------------------------------------
(* The stand-alone containers q and s, driven by arbitrary callers *)

Enqueue(e) ==
    /\ q.rear < MaxSlots
    /\ q' = QEnqueue(q, e)
    /\ qLive' = Append(qLive, e)
    /\ ret' = [op |-> "enqueue", value |-> Some(QSize(q'))]
    /\ UNCHANGED <<s, sLive>>
    /\ UNCHANGED <<orchVars, libVars>>

Dequeue ==
    /\ q' = QDequeue(q).queue
    /\ qLive' = IF qLive = <<>> THEN qLive ELSE Tail(qLive)
    /\ ret' = [op |-> "dequeue", value |-> QDequeue(q).item]
    /\ UNCHANGED <<s, sLive>>
    /\ UNCHANGED <<orchVars, libVars>>

PeekQueue ==
    /\ ret' = [op |-> "peek", value |-> QPeek(q)]
    /\ UNCHANGED <<q, qLive, s, sLive>>
    /\ UNCHANGED <<orchVars, libVars>>

ClearQueue ==
    /\ q' = QClear(q)
    /\ qLive' = <<>>
    /\ ret' = [op |-> "clear", value |-> Absent]
    /\ UNCHANGED <<s, sLive>>
    /\ UNCHANGED <<orchVars, libVars>>

Push(e) ==
    /\ s.top + 1 < MaxSlots
    /\ s' = SPush(s, e)
    /\ sLive' = Append(sLive, e)
    /\ ret' = [op |-> "push", value |-> Some(SSize(s'))]
    /\ UNCHANGED <<q, qLive>>
    /\ UNCHANGED <<orchVars, libVars>>

Pop ==
    /\ s' = SPop(s).stack
    /\ sLive' = IF sLive = <<>> THEN sLive ELSE SubSeq(sLive, 1, Len(sLive) - 1)
    /\ ret' = [op |-> "pop", value |-> SPop(s).item]
    /\ UNCHANGED <<q, qLive>>
    /\ UNCHANGED <<orchVars, libVars>>

PeekStack ==
    /\ ret' = [op |-> "peekStack", value |-> SPeek(s)]
    /\ UNCHANGED <<q, qLive, s, sLive>>
    /\ UNCHANGED <<orchVars, libVars>>

ClearStack ==
    /\ s' = SClear(s)
    /\ sLive' = <<>>
    /\ ret' = [op |-> "clearStack", value |-> Absent]
    /\ UNCHANGED <<q, qLive>>
    /\ UNCHANGED <<orchVars, libVars>>

----------------------------------------------------------------------------
(* Calls of the sorting and search library.  The elements are documents
   {key, id}: key is the field compared, id tells documents of equal key
   apart. *)

Arrays ==
    UNION { { [i \in 1..n |-> [key |-> f[i], id |-> i]] : f \in [1..n -> 0..MaxKey] }
            : n \in 0..MaxLen }

\* sorted ascending by key, as binarySearch requires
IsSortedAscending(arr) == \A i \in 1..(Len(arr) - 1) : arr[i].key <= arr[i + 1].key

SortCalls ==
    [kind : {"sort"}, arr : Arrays, cmp : {"keyAsc", "keyDesc"}, op : {"none"},
     out : {Absent}]

SearchCalls ==
    [kind : {"search"}, arr : Arrays, target : 0..(MaxKey + 1), op : {"none"},
     out : {Absent}]

Algorihtm == <<"A", "l", "g", "o", "r", "i", "h", "t", "m">>

AlgorithmDesign ==
    <<"A", "l", "g", "o", "r", "i", "t", "h", "m", " ", "D", "e", "s", "i", "g", "n">>

Words ==
    { <<>>, <<"a">>, <<"a", "b">>, <<"A", "b">>, <<"b", "a">>, <<"a", "b", "c">>,
      <<"b", "c", "a">>, Algorihtm, AlgorithmDesign }

FuzzyCalls ==
    [kind : {"fuzzy"},
     data : UNION { [1..n -> Words] : n \in 0..MaxWords },
     query : Words, threshold : 0..MaxThreshold, op : {"none"}, out : {Absent}]

InsertionSortCall ==
    /\ call.kind = "sort"
    /\ call' = [call EXCEPT !.op = "insertionSort",
                            !.out = Some(insertionSort(call.arr, call.cmp))]
    /\ UNCHANGED <<orchVars, adtVars>>

SelectionSortCall ==
    /\ call.kind = "sort"
    /\ call' = [call EXCEPT !.op = "selectionSort",
                            !.out = Some(selectionSort(call.arr, call.cmp))]
    /\ UNCHANGED <<orchVars, adtVars>>

QuickSortCall ==
    /\ call.kind = "sort"
    /\ call' = [call EXCEPT !.op = "quickSort",
                            !.out = Some(quickSort(call.arr, call.cmp))]
    /\ UNCHANGED <<orchVars, adtVars>>

MergeSortCall ==
    /\ call.kind = "sort"
    /\ call' = [call EXCEPT !.op = "mergeSort",
                            !.out = Some(mergeSort(call.arr, call.cmp))]
    /\ UNCHANGED <<orchVars, adtVars>>

LinearSearchCall ==
    /\ call.kind = "search"
    /\ call' = [call EXCEPT !.op = "linearSearch",
                            !.out = Some(linearSearch(call.arr, call.target, "key"))]
    /\ UNCHANGED <<orchVars, adtVars>>

BinarySearchCall ==
    /\ call.kind = "search"
    /\ IsSortedAscending(call.arr)
    /\ call' = [call EXCEPT !.op = "binarySearch",
                            !.out = Some(binarySearch(call.arr, call.target, "key"))]
    /\ UNCHANGED <<orchVars, adtVars>>

HashSearchCall ==
    /\ call.kind = "search"
    /\ call' = [call EXCEPT !.op = "hashSearch",
                            !.out = Some(hashSearch(call.arr, call.target, "key"))]
    /\ UNCHANGED <<orchVars, adtVars>>

FuzzySearchCall ==
    /\ call.kind = "fuzzy"
    /\ call' = [call EXCEPT !.op = "fuzzySearch",
                            !.out = Some(fuzzySearch(call.data, call.query, "identity",
                                                     call.threshold))]
    /\ UNCHANGED <<orchVars, adtVars>>

----------------------------------------------------------------------------
(* Specifications *)

Init ==
    /\ pendingOrders = NewQueue
    /\ processingHistory = NewStack
    /\ completedOrders = NewQueue
    /\ stats = EmptyStats
    /\ orders = <<>>
    /\ inflight = <<>>
    /\ result = [op |-> "none"]
    /\ now = 0
    /\ undone = 0
    /\ q = NewQueue
    /\ s = NewStack
    /\ qLive = <<>>
    /\ sLive = <<>>
    /\ ret = [op |-> "none", value |-> Absent]
    /\ call = [kind |-> "none"]

\* No processNextOrder invocation is suspended
Idle == inflight = <<>>

\* Callers that await every call before they make the next one; the
\* microtask at the head of the queue runs whenever there is one
Next ==
    \/ \E orderData \in OrderInputs, clock \in now..MaxClock, suffix \in 1..MaxRand :
           Idle /\ AddOrder(orderData, clock, suffix)
    \/ Idle /\ ProcessNextOrder
    \/ \E k \in 1..Len(SearchRequests) :
           Idle /\ SearchOrder(SearchRequests[k].term, SearchRequests[k].type)
    \/ Idle /\ GetQueueStatus
    \/ \E count \in 0..MaxCount : Idle /\ GetProcessingHistory(count)
    \/ Idle /\ UndoLastOperation
    \/ ResumeAfterValidate
    \/ ResumeAfterAvailability
    \/ ResumeAfterSort
    \/ \E processingTime \in 1..MaxElapsed : ResumeAfterPricing(processingTime)
    \/ ResumeCatch

Spec == Init /\ [][Next]_vars

\* Callers that do not wait: calls of addOrder, processNextOrder, searchOrder
\* and getQueueStatus arrive between the microtasks of a suspended
\* processNextOrder
NextAsync ==
    \/ \E orderData \in OrderInputs, clock \in now..MaxClock, suffix \in 1..MaxRand :
           Len(orders) < MaxAsyncOrders /\ AddOrder(orderData, clock, suffix)
    \/ ProcessNextOrder
    \/ \E k \in 1..Len(SearchRequests) :
           SearchOrder(SearchRequests[k].term, SearchRequests[k].type)
    \/ GetQueueStatus
    \/ ResumeAfterValidate
    \/ ResumeAfterAvailability
    \/ ResumeAfterSort
    \/ \E processingTime \in 1..MaxElapsed : ResumeAfterPricing(processingTime)
    \/ ResumeCatch

SpecAsync == Init /\ [][NextAsync]_vars

\* Callers that await every call and send orders of up to 51 books
NextSorting ==
    \/ \E orderData \in SortInputs, clock \in now..MaxClock, suffix \in 1..MaxRand :
           Idle /\ Len(orders) < MaxSortOrders /\ AddOrder(orderData, clock, suffix)
    \/ Idle /\ ProcessNextOrder
    \/ ResumeAfterValidate
    \/ ResumeAfterAvailability
    \/ ResumeAfterSort
    \/ \E processingTime \in 1..MaxElapsed : ResumeAfterPricing(processingTime)
    \/ ResumeCatch

SpecSorting == Init /\ [][NextSorting]_vars

\* Callers that await every call and list up to MaxHistoryCount entries of
\* the history
NextHistory ==
    \/ \E orderData \in OrderInputs, clock \in now..MaxClock, suffix \in 1..MaxRand :
           Idle /\ Len(orders) < MaxHistoryOrders /\ AddOrder(orderData, clock, suffix)
    \/ Idle /\ ProcessNextOrder
    \/ Idle /\ GetQueueStatus
    \/ \E count \in 0..MaxHistoryCount : Idle /\ GetProcessingHistory(count)
    \/ Idle /\ UndoLastOperation
    \/ ResumeAfterValidate
    \/ ResumeAfterAvailability
    \/ ResumeAfterSort
    \/ \E processingTime \in 1..MaxElapsed : ResumeAfterPricing(processingTime)
    \/ ResumeCatch

SpecHistory == Init /\ [][NextHistory]_vars

\* A caller of the library: the arguments are fixed when the run starts, and
\* the algorithms are applied to them in any order
InitAlgorithms ==
    /\ pendingOrders = NewQueue
    /\ processingHistory = NewStack
    /\ completedOrders = NewQueue
    /\ stats = EmptyStats
    /\ orders = <<>>
    /\ inflight = <<>>
    /\ result = [op |-> "none"]
    /\ now = 0
    /\ undone = 0
    /\ q = NewQueue
    /\ s = NewStack
    /\ qLive = <<>>
    /\ sLive = <<>>
    /\ ret = [op |-> "none", value |-> Absent]
    /\ \/ call \in SortCalls
       \/ call \in SearchCalls
       \/ call \in FuzzyCalls

NextAlgorithms ==
    \/ InsertionSortCall
    \/ SelectionSortCall
    \/ QuickSortCall
    \/ MergeSortCall
    \/ LinearSearchCall
    \/ BinarySearchCall
    \/ HashSearchCall
    \/ FuzzySearchCall

SpecAlgorithms == InitAlgorithms /\ [][NextAlgorithms]_vars

\* Callers that await every call and send orders of every price and quantity
NextPricing ==
    \/ \E orderData \in PriceInputs, clock \in now..MaxClock, suffix \in 1..MaxRand :
           Idle /\ Len(orders) < MaxPriceOrders /\ AddOrder(orderData, clock, suffix)
    \/ Idle /\ ProcessNextOrder
    \/ ResumeAfterValidate
    \/ ResumeAfterAvailability
    \/ ResumeAfterSort
    \/ \E processingTime \in 1..MaxElapsed : ResumeAfterPricing(processingTime)
    \/ ResumeCatch

SpecPricing == Init /\ [][NextPricing]_vars

\* The callers of NextHistory when processNextOrder keeps being called: a call
\* of processNextOrder that stays possible is made in the end, and the
\* microtask at the head of the queue is always run
SpecDrain ==
    /\ Init
    /\ [][NextHistory]_vars
    /\ WF_vars(Idle /\ ProcessNextOrder)
    /\ WF_vars(ResumeAfterValidate)
    /\ WF_vars(ResumeAfterAvailability)
    /\ WF_vars(ResumeAfterSort)
    /\ WF_vars(\E processingTime \in 1..MaxElapsed : ResumeAfterPricing(processingTime))
    /\ WF_vars(ResumeCatch)

\* Arbitrary callers of the stand-alone containers
NextContainers ==
    \/ \E e \in 1..MaxElem : Enqueue(e)
    \/ Dequeue
    \/ PeekQueue
    \/ ClearQueue
    \/ \E e \in 1..MaxElem : Push(e)
    \/ Pop
    \/ PeekStack
    \/ ClearStack

SpecContainers == Init /\ [][NextContainers]_vars

----------------------------------------------------------------------------
(* Properties *)

Has(r, f) == f \in DOMAIN r

\* the references of the orders created so far
Admitted == 1..Len(orders)

\* the elements of an array without holes
Values(arr) == [k \in 1..Len(arr) |-> arr[k][1]]

\* an ORDER_ERROR entry for order o is on the history stack
HasErrorEntry(o) ==
    \E k \in 1..SSize(processingHistory) :
        LET entry == SToArray(processingHistory)[k][1]
        IN entry.action = "ORDER_ERROR" /\ entry.orderNumber = orders[o].orderNumber

IsProcessing(o) == orders[o].status = "Processing"

\* C1: once every call has completed, each order that left the pending queue
\* is in the completed queue with a status other than Error, or has status
\* Error and an ORDER_ERROR entry with its orderNumber on the history stack.
C1_NoOrderDropped ==
    Idle =>
        \A o \in Admitted \ Refs(pendingOrders) :
            \/ o \in Refs(completedOrders) /\ orders[o].status # "Error"
            \/ orders[o].status = "Error" /\ HasErrorEntry(o)

\* C2: with processNextOrder called one call at a time, the completed queue
\* holds, front to rear, the successfully processed orders in the order in
\* which they were admitted.
C2_CompletedInAdmissionOrder ==
    Values(QToArray(completedOrders))
        = SelectSeq([k \in 1..Len(orders) |-> k], IsProcessing)

\* Scenario A: A, B, C admitted, three processNextOrder calls, completed is A, B, C
C2_ScenarioA ==
    /\ Idle
    /\ Len(orders) = 3
    /\ QIsEmpty(pendingOrders)
    /\ Values(QToArray(completedOrders)) = <<1, 2, 3>>

\* C3: when a step of processNextOrder fails, the order gets status Error and
\* the error message, exactly one ORDER_ERROR entry with its orderNumber is
\* pushed on the history as it was at the call, the call returns failure, the
\* order is in neither queue, and the other orders of both queues and every
\* other order object are as they were at the call.
C3_FailureIsLocal ==
    [][(inflight # <<>> /\ Cont.rejected # Absent) =>
          LET o == Cont.order
              pre == Cont.pre
          IN /\ orders'[o].status = "Error"
             /\ orders'[o].error = Cont.rejected
             /\ SToArray(processingHistory')
                    = Append(SToArray(pre.processingHistory),
                             Some([action |-> "ORDER_ERROR",
                                   orderNumber |-> orders[o].orderNumber,
                                   error |-> Cont.rejected[1]]))
             /\ result'.op = "processNextOrder"
             /\ result'.success = FALSE
             /\ result'.orderNumber = orders[o].orderNumber
             /\ o \notin Refs(pendingOrders')
             /\ o \notin Refs(completedOrders')
             /\ QToArray(pre.pendingOrders)[1] = Some(o)
             /\ QToArray(pendingOrders') = Tail(QToArray(pre.pendingOrders))
             /\ QToArray(completedOrders') = QToArray(pre.completedOrders)
             /\ stats'.totalProcessed = pre.stats.totalProcessed
             /\ Len(orders') = Len(pre.orders)
             /\ \A k \in Admitted \ {o} : orders'[k] = pre.orders[k]]_vars

\* an order failed at the pricing step while another order is completed and
\* a third one is pending
C3_Witness ==
    /\ Idle
    /\ result.op = "processNextOrder"
    /\ Has(result, "error")
    /\ result.error = "Cannot read properties of null (reading 'book')"
    /\ QSize(completedOrders) = 1
    /\ QSize(pendingOrders) = 1
    /\ \E o \in Admitted : orders[o].status = "Error"

AllSteps ==
    <<"Order validation started", "Book availability check", "Sorting books in order",
      "Calculating total and updating inventory">>

\* C4: a processNextOrder call that succeeds has removed exactly the front
\* order of pending, and, once all four steps are logged on the order, sets
\* its status to Processing, pushes exactly one ORDER_PROCESSED entry naming
\* the order and its sorting algorithm, appends the order at the rear of the
\* completed queue and raises totalProcessed by exactly 1.
C4_SuccessEffect ==
    [][(/\ inflight # <<>>
        /\ Cont.rejected = Absent
        /\ Cont.awaiting = "calculateTotalAndUpdateInventory") =>
          LET o == Cont.order
              pre == Cont.pre
              pushed == SToArray(processingHistory')[SSize(processingHistory')][1]
          IN /\ QToArray(pre.pendingOrders)[1] = Some(o)
             /\ QToArray(pendingOrders') = Tail(QToArray(pre.pendingOrders))
             /\ pre.orders[o].status = "Pending"
             /\ orders[o].processingSteps = AllSteps
             /\ orders'[o].status = "Processing"
             /\ SSize(processingHistory') = SSize(pre.processingHistory) + 1
             /\ SubSeq(SToArray(processingHistory'), 1, SSize(pre.processingHistory))
                    = SToArray(pre.processingHistory)
             /\ pushed.action = "ORDER_PROCESSED"
             /\ pushed.orderNumber = orders[o].orderNumber
             /\ pushed.algorithm = orders'[o].sortingAlgorithm
             /\ pushed.algorithm
                    = Some(sortBooksInOrder(pre.orders[o], pre.stats).sortingResult.algorithm)
             /\ QToArray(completedOrders')
                    = Append(QToArray(pre.completedOrders), Some(o))
             /\ stats'.totalProcessed = pre.stats.totalProcessed + 1
             /\ result'.op = "processNextOrder"
             /\ result'.success = TRUE]_vars

\* the second of two orders has just been processed successfully
C4_Witness ==
    /\ Idle
    /\ result.op = "processNextOrder"
    /\ Has(result, "order")
    /\ result.order = 2
    /\ stats.totalProcessed = 2
    /\ Values(QToArray(completedOrders)) = <<1, 2>>

\* C5: processNextOrder on an empty pending queue returns the empty-queue
\* failure and leaves both queues, the history, the statistics and every
\* order as they were.
C5_EmptyQueueNoChange ==
    [][(Idle /\ QIsEmpty(pendingOrders) /\ result'.op = "processNextOrder") =>
          /\ result' = EmptyQueueResult
          /\ UNCHANGED <<pendingOrders, completedOrders, processingHistory, stats,
                         orders, inflight>>]_vars

\* the empty-queue failure was returned after orders had been processed
C5_Witness ==
    /\ result = EmptyQueueResult
    /\ QIsEmpty(pendingOrders)
    /\ QSize(completedOrders) > 0
    /\ SSize(processingHistory) > 0

\* C6: every addOrder call succeeds, appends a new Pending order with an
\* empty step log at the rear of pending, pushes one ORDER_ADDED entry with
\* the new orderNumber, returns the pending size after the enqueue as
\* queuePosition, and leaves the completed queue and the statistics alone.
C6_AddOrderEffect ==
    [][Len(orders') = Len(orders) + 1 =>
          LET o == Len(orders')
          IN /\ orders'[o].status = "Pending"
             /\ orders'[o].processingSteps = <<>>
             /\ SubSeq(orders', 1, Len(orders)) = orders
             /\ QToArray(pendingOrders') = Append(QToArray(pendingOrders), Some(o))
             /\ QSize(pendingOrders') = QSize(pendingOrders) + 1
             /\ SSize(processingHistory') = SSize(processingHistory) + 1
             /\ SToArray(processingHistory')
                    = Append(SToArray(processingHistory),
                             Some([action |-> "ORDER_ADDED",
                                   orderNumber |-> orders'[o].orderNumber,
                                   queueSize |-> QSize(pendingOrders')]))
             /\ result'.op = "addOrder"
             /\ result'.success = TRUE
             /\ result'.orderNumber = orders'[o].orderNumber
             /\ result'.queuePosition = QSize(pendingOrders')
             /\ UNCHANGED <<completedOrders, stats>>]_vars

\* the third order was added behind one pending order, after one was processed
C6_Witness ==
    /\ result.op = "addOrder"
    /\ result.queuePosition = 2
    /\ Len(orders) = 3
    /\ QSize(completedOrders) = 1

\* a call of one of the entry points that C7 names
EntryPointCall ==
    \/ \E orderData \in OrderInputs, clock \in now..MaxClock, suffix \in 1..MaxRand :
           AddOrder(orderData, clock, suffix)
    \/ ProcessNextOrder
    \/ \E k \in 1..Len(SearchRequests) :
           SearchOrder(SearchRequests[k].term, SearchRequests[k].type)
    \/ GetQueueStatus

\* C7: processNextOrder is atomic: while an invocation is between its dequeue
\* and its completion, no addOrder, processNextOrder, searchOrder or
\* getQueueStatus call takes place.
C7_ProcessNextAtomic ==
    [][inflight # <<>> => ~EntryPointCall]_vars

\* C8: no two orders admitted by addOrder have the same orderNumber.
C8_OrderNumbersUnique ==
    \A i \in Admitted : \A j \in Admitted :
        i # j => orders[i].orderNumber # orders[j].orderNumber

\* C9: every dequeue returns the oldest element enqueued and not yet removed
\* (the absent value when there is none).
C9_QueueFifo ==
    [][ret'.op = "dequeue" =>
          ret'.value = (IF qLive = <<>> THEN Absent ELSE Some(Head(qLive)))]_vars

\* 1 and 2 enqueued, then 1 again; the dequeue returned the oldest, 1
C9_Witness ==
    /\ ret = [op |-> "dequeue", value |-> Some(1)]
    /\ qLive = <<2, 1>>

\* C10: every pop returns the most recently pushed element not yet removed
\* (the absent value when there is none), and toArray lists the live elements
\* bottom to top in push order.
C10_StackLifo ==
    /\ [](Values(SToArray(s)) = sLive)
    /\ [][ret'.op = "pop" =>
             ret'.value = (IF sLive = <<>> THEN Absent
                           ELSE Some(sLive[Len(sLive)]))]_vars

\* 1, 1 and 2 pushed in that order; the pop returned the newest, 2
C10_Witness ==
    /\ ret = [op |-> "pop", value |-> Some(2)]
    /\ sLive = <<1, 1>>
    /\ Values(SToArray(s)) = <<1, 1>>

\* C11: in every reachable state of a Queue and of a Stack, size() is the
\* number of elements added and not yet removed, size() is not negative, and
\* isEmpty() is true exactly when size() is 0.
C11_SizeCountsLive ==
    /\ QSize(q) = Len(qLive)
    /\ SSize(s) = Len(sLive)
    /\ QSize(q) >= 0
    /\ SSize(s) >= 0
    /\ QIsEmpty(q) <=> (QSize(q) = 0)
    /\ SIsEmpty(s) <=> (SSize(s) = 0)

\* a pop was attempted on the empty stack while the queue holds two elements
C11_Witness ==
    /\ ret = [op |-> "pop", value |-> Absent]
    /\ SSize(s) = 0
    /\ SIsEmpty(s)
    /\ QSize(q) = 2
    /\ ~QIsEmpty(q)

\* C12: dequeue, pop and peek on an empty container return the absent value
\* and leave the container as it was; peek on a non-empty container returns
\* the element the next dequeue or pop would return and leaves the container
\* as it was.
C12_EmptyAndPeek ==
    [][ /\ (ret'.op = "dequeue" /\ QIsEmpty(q)) => (ret'.value = Absent /\ q' = q)
        /\ (ret'.op = "pop" /\ SIsEmpty(s)) => (ret'.value = Absent /\ s' = s)
        /\ ret'.op = "peek" =>
               /\ q' = q
               /\ ret'.value = (IF qLive = <<>> THEN Absent ELSE Some(Head(qLive)))
               /\ ret'.value = QDequeue(q').item
        /\ ret'.op = "peekStack" =>
               /\ s' = s
               /\ ret'.value = (IF sLive = <<>> THEN Absent ELSE Some(sLive[Len(sLive)]))
               /\ ret'.value = SPop(s').item ]_vars

\* peek on the queue holding 1 then 2 returned 1, and both are still there
C12_Witness ==
    /\ ret = [op |-> "peek", value |-> Some(1)]
    /\ qLive = <<1, 2>>
    /\ Values(QToArray(q)) = <<1, 2>>

\* C13: every successfully processed order records the sorting algorithm its
\* number of books n selects: Insertion Sort for n <= 10, n = 1 included,
\* Quick Sort for 11 <= n <= 50, Merge Sort for n > 50.
C13_SortSelection ==
    \A o \in Admitted :
        IsProcessing(o) =>
            LET n == Len(orders[o].books[1])
            IN orders[o].sortingAlgorithm =
                   Some(IF n <= 10 THEN "Insertion Sort"
                        ELSE IF n <= 50 THEN "Quick Sort" ELSE "Merge Sort")

\* C14: the algorithm named in a searchOrder result is Hash Search for an
\* orderNumber lookup, Fuzzy Search for a customer lookup and Linear Search
\* for a status lookup.
C14_SearchSelection ==
    (/\ result.op = "searchOrder"
     /\ ~result.thrown
     /\ result.searchType \in {"orderNumber", "customer", "status"})
    => result.search.algorithm =
           (CASE result.searchType = "orderNumber" -> "Hash Search"
              [] result.searchType = "customer" -> "Fuzzy Search"
              [] result.searchType = "status" -> "Linear Search")

\* C15: a searchOrder call, whatever the term and the type, leaves the pending
\* queue, the completed queue and the history stack as they were, and the
\* total count in its result is the pending size plus the completed size at
\* the call.
C15_SearchFrame ==
    [][result'.op = "searchOrder" =>
          /\ pendingOrders' = pendingOrders
          /\ completedOrders' = completedOrders
          /\ processingHistory' = processingHistory
          /\ Deref(pendingOrders)' = Deref(pendingOrders)
          /\ Deref(completedOrders)' = Deref(completedOrders)
          /\ ~result'.thrown =>
                 result'.totalOrders = QSize(pendingOrders) + QSize(completedOrders)]_vars

\* a status search over one pending and one completed order
C15_Witness ==
    /\ result.op = "searchOrder"
    /\ ~result.thrown
    /\ result.searchType = "status"
    /\ result.totalOrders = 2
    /\ QSize(pendingOrders) = 1
    /\ QSize(completedOrders) = 1

\* C16: the statistics change only in a step of a processNextOrder call whose
\* order is not rejected; addOrder, searchOrder, getQueueStatus,
\* getProcessingHistory, undoLastOperation, and a processNextOrder that fails
\* or finds the queue empty leave them as they were.
C16_StatsOnlyOnSuccess ==
    [][stats' # stats =>
          /\ inflight # <<>>
          /\ Cont.rejected = Absent
          /\ orders'[Cont.order].status # "Error"
          /\ result'.op \notin {"addOrder", "searchOrder", "getQueueStatus",
                                 "getProcessingHistory", "undoLastOperation"}]_vars

\* C17: getProcessingHistory(n) returns the min(n, history size) entries
\* pushed last, the most recent first, and leaves the history stack with the
\* same entries in the same order.
C17_HistoryListing ==
    [][result'.op = "getProcessingHistory" =>
          LET entries == Values(SToArray(processingHistory))
              size == Len(entries)
              m == IF result'.count <= size THEN result'.count ELSE size
          IN /\ Len(result'.history) = m
             /\ \A k \in 1..m : result'.history[k] = entries[size - k + 1]
             /\ SToArray(processingHistory') = SToArray(processingHistory)
             /\ SSize(processingHistory') = SSize(processingHistory)]_vars

\* three entries were asked of a history of four: the processing of the
\* second order first, then the processing of the first, then an addition
C17_Witness ==
    /\ result.op = "getProcessingHistory"
    /\ result.count = 3
    /\ SSize(processingHistory) = 4
    /\ Len(result.history) = 3
    /\ result.history[1].action = "ORDER_PROCESSED"
    /\ result.history[3].action = "ORDER_ADDED"

C19_NotUndoableNoChange ==
    [][(/\ undone' # undone
        /\ ~SIsEmpty(processingHistory)
        /\ SPeek(processingHistory)[1].action # "ORDER_PROCESSED") =>
          /\ result'.op = "undoLastOperation"
          /\ ~result'.success
          /\ SPeek(processingHistory') = SPeek(processingHistory)
          /\ SSize(processingHistory') = SSize(processingHistory)
          /\ SToArray(processingHistory') = SToArray(processingHistory)
          /\ pendingOrders' = pendingOrders
          /\ completedOrders' = completedOrders
          /\ stats' = stats]_vars

Elements(arr) == {arr[i] : i \in 1..Len(arr)}

\* the keys of an array, in order
Keys(arr) == [i \in 1..Len(arr) |-> arr[i].key]

\* C21: the sortedArray of insertionSort, selectionSort, quickSort and
\* mergeSort is a permutation of the input, and no element of it sorts after
\* a later one under the comparator of the call.
C21_SortCorrect ==
    (call.kind = "sort" /\ call.op # "none") =>
        LET sortedArray == call.out[1].sortedArray
        IN /\ Len(sortedArray) = Len(call.arr)
           /\ Elements(sortedArray) = Elements(call.arr)
           /\ \A i \in 1..Len(sortedArray) : \A j \in (i + 1)..Len(sortedArray) :
                  /\ ~Compare(call.cmp, sortedArray[i], sortedArray[j])
                  /\ call.cmp = "keyAsc" => sortedArray[i].key <= sortedArray[j].key
                  /\ call.cmp = "keyDesc" => sortedArray[i].key >= sortedArray[j].key

\* quickSort put the keys 2, 0, 2, 1 in descending order
C21_Witness ==
    /\ call.kind = "sort"
    /\ call.op = "quickSort"
    /\ call.cmp = "keyDesc"
    /\ Keys(call.arr) = <<2, 0, 2, 1>>
    /\ Keys(call.out[1].sortedArray) = <<2, 2, 1, 0>>

\* C22: insertionSort and mergeSort are stable: two elements of equal key
\* come out in the order in which they went in.
C22_StableSorts ==
    (call.kind = "sort" /\ call.op \in {"insertionSort", "mergeSort"}) =>
        LET sortedArray == call.out[1].sortedArray
        IN \A i \in 1..Len(sortedArray) : \A j \in (i + 1)..Len(sortedArray) :
               sortedArray[i].key = sortedArray[j].key =>
                   sortedArray[i].id < sortedArray[j].id

\* mergeSort on the keys 1, 0, 1, 0: the second and fourth documents first,
\* in that order, then the first and the third
C22_Witness ==
    /\ call.kind = "sort"
    /\ call.op = "mergeSort"
    /\ call.cmp = "keyAsc"
    /\ Keys(call.arr) = <<1, 0, 1, 0>>
    /\ [i \in 1..4 |-> call.out[1].sortedArray[i].id] = <<2, 4, 1, 3>>

\* C23: linearSearch and hashSearch on any array, and binarySearch on an
\* array sorted ascending by key: when some element has the target key the
\* result is found with an element of the array that has the target key, at
\* the index reported; when none has, the result is not found, with index -1
\* and no element.
C23_SearchCorrect ==
    (call.kind = "search" /\ call.op # "none") =>
        LET out == call.out[1]
        IN IF \E i \in 1..Len(call.arr) : call.arr[i].key = call.target
           THEN /\ out.found
                /\ out.index \in 0..(Len(call.arr) - 1)
                /\ out.element = Some(call.arr[out.index + 1])
                /\ out.element[1].key = call.target
           ELSE /\ ~out.found
                /\ out.index = -1
                /\ out.element = Absent

\* binarySearch for the key 2 in the keys 0, 1, 1, 2 found it in the last slot
C23_Witness ==
    /\ call.kind = "search"
    /\ call.op = "binarySearch"
    /\ Keys(call.arr) = <<0, 1, 1, 2>>
    /\ call.target = 2
    /\ call.out[1].found
    /\ call.out[1].index = 3

\* the candidate indices of a fuzzySearch result
MatchSet(out) == {out.matches[k].index : k \in 1..Len(out.matches)}

\* C24: for the same data, query and key function, every candidate index
\* matched by fuzzySearch at a threshold is matched at every larger threshold.
C24_FuzzyMonotone ==
    (call.kind = "fuzzy" /\ call.op = "fuzzySearch") =>
        \A t2 \in call.threshold..MaxThreshold :
            MatchSet(call.out[1]) \subseteq
                MatchSet(fuzzySearch(call.data, call.query, "identity", t2))

\* "ab" against "a" and "bca": threshold 1 matches the first only, the largest
\* threshold matches both
C24_Witness ==
    /\ call.kind = "fuzzy"
    /\ call.op = "fuzzySearch"
    /\ call.data = << <<"a">>, <<"b", "c", "a">> >>
    /\ call.query = <<"a", "b">>
    /\ call.threshold = 1
    /\ MatchSet(call.out[1]) = {0}
    /\ MatchSet(fuzzySearch(call.data, call.query, "identity", MaxThreshold)) = {0, 1}

\* C25: fuzzySearch with threshold 2 for the query "Algorihtm" over data that
\* contains "Algorithm Design" reports found, with that candidate among the
\* matches at a distance of at most 2.
C25_ScenarioE ==
    (/\ call.kind = "fuzzy"
     /\ call.op = "fuzzySearch"
     /\ call.query = Algorihtm
     /\ call.threshold = 2
     /\ \E i \in 1..Len(call.data) : call.data[i] = AlgorithmDesign) =>
        /\ call.out[1].found
        /\ \E k \in 1..Len(call.out[1].matches) :
               /\ call.out[1].matches[k].element = AlgorithmDesign
               /\ call.out[1].matches[k].distance <= 2

\* C26: a searchOrder of type orderNumber over pending and completed orders
\* of which exactly one has the searched orderNumber returns found together
\* with a matches list of length 1 that holds that order.
C26_ScenarioC ==
    LET allOrders == Deref(pendingOrders) \o Deref(completedOrders)
        hits == {i \in 1..Len(allOrders) : allOrders[i].orderNumber = result.searchTerm}
    IN (/\ result.op = "searchOrder"
        /\ ~result.thrown
        /\ result.searchType = "orderNumber"
        /\ Cardinality(hits) = 1) =>
           /\ result.search.found
           /\ Has(result.search, "matches")
           /\ Len(result.search.matches) = 1
           /\ \A i \in hits : result.search.matches[1] = allOrders[i]

\* price times quantity, summed over the books of an order
RECURSIVE PriceTimesQuantity(_)
PriceTimesQuantity(books) ==
    IF books = <<>> THEN 0
    ELSE Head(books)[1].price * Head(books)[1].quantity + PriceTimesQuantity(Tail(books))

\* C27: the totalPrice of a successfully processed order is the sum over its
\* books of price times quantity, quantity 0 included, whatever totalPrice
\* the caller supplied.
C27_TotalPrice ==
    \A o \in Admitted :
        IsProcessing(o) => orders[o].totalPrice = PriceTimesQuantity(orders[o].books[1])

\* the order has no books or no customer reference
LacksBooksOrCustomer(order) ==
    \/ order.books = Absent
    \/ Len(order.books[1]) = 0
    \/ order.customer = Absent

\* C28: processNextOrder fails at the validation step exactly when the order
\* has no books or no customer; the later steps are then never run for it
\* (its step log holds the validation label only, it records no sorting
\* algorithm and no sorting tally is raised); an order with a book and a
\* customer passes validation.
C28_ValidationFailure ==
    /\ [](\A o \in Admitted :
              LacksBooksOrCustomer(orders[o]) =>
                  /\ Len(orders[o].processingSteps) <= 1
                  /\ orders[o].sortingAlgorithm = Absent
                  /\ ~IsProcessing(o))
    /\ [][(inflight # <<>> /\ Cont.awaiting = "validateOrder" /\ inflight' # inflight) =>
             IF LacksBooksOrCustomer(orders[Cont.order])
             THEN /\ orders'[Cont.order].status = "Error"
                  /\ orders'[Cont.order].error # Absent
                  /\ orders'[Cont.order].processingSteps = <<"Order validation started">>
                  /\ stats' = stats
                  /\ stats'.sorting = Cont.pre.stats.sorting
                  /\ SPeek(processingHistory')[1].action = "ORDER_ERROR"
             ELSE /\ orders'[Cont.order].status = "Pending"
                  /\ orders'[Cont.order].processingSteps =
                         <<"Order validation started", "Book availability check">>]_vars

\* an order without customer failed at validation after an order with books
\* and a customer was sorted and completed
C28_Witness ==
    /\ Len(orders) = 2
    /\ IsProcessing(1)
    /\ orders[1].sortingAlgorithm = Some("Insertion Sort")
    /\ orders[2].customer = Absent
    /\ orders[2].status = "Error"
    /\ orders[2].error = Some("Order must have customer information")
    /\ orders[2].processingSteps = <<"Order validation started">>
    /\ stats.sorting["Insertion Sort"] = 1

\* C29: a processNextOrder call on a non-empty pending queue takes exactly
\* one order off it, whether the order then succeeds or fails; so once
\* addOrder is no longer called and processNextOrder keeps being called, the
\* pending queue becomes empty and every admitted order has left the Pending
\* status for good.
C29_PendingDrains ==
    /\ [][(Idle /\ inflight' # <<>>) =>
             /\ ~QIsEmpty(pendingOrders)
             /\ QSize(pendingOrders') = QSize(pendingOrders) - 1]_vars
    /\ [][(Idle /\ ~QIsEmpty(pendingOrders) /\ result'.op = "processNextOrder") =>
             QSize(pendingOrders') = QSize(pendingOrders) - 1]_vars
    /\ <>[](/\ QIsEmpty(pendingOrders)
            /\ \A o \in Admitted : orders[o].status \in {"Processing", "Error"})

\* two orders were admitted and both have left the pending queue: the first
\* is completed, the second failed
C29_Witness ==
    /\ Len(orders) = 2
    /\ QIsEmpty(pendingOrders)
    /\ Idle
    /\ IsProcessing(1)
    /\ orders[2].status = "Error"
    /\ Refs(completedOrders) = {1}

\* C30: after any sequence of completed addOrder, processNextOrder,
\* searchOrder, getProcessingHistory and undoLastOperation calls,
\* stats.totalProcessed is the size of the completed queue, every order in
\* the pending queue has status Pending and every order in the completed
\* queue has status Processing; the completed queue never shrinks.
C30_QueueInvariants ==
    /\ [](Idle =>
             /\ stats.totalProcessed = QSize(completedOrders)
             /\ \A o \in Refs(pendingOrders) : orders[o].status = "Pending"
             /\ \A o \in Refs(completedOrders) : IsProcessing(o))
    /\ [][/\ QSize(completedOrders') >= QSize(completedOrders)
          /\ SubSeq(QToArray(completedOrders'), 1, QSize(completedOrders))
                 = QToArray(completedOrders)]_vars

\* two orders are completed and counted, a third is still pending
C30_Witness ==
    /\ Idle
    /\ stats.totalProcessed = 2
    /\ QSize(completedOrders) = 2
    /\ QSize(pendingOrders) = 1
    /\ \A o \in Refs(pendingOrders) : orders[o].status = "Pending"
    /\ undone = 1

====
